---- MODULE Spec2Model ----
(***************************************************************************)
(* CAN bus transport of asterix-rs (src/asterix-rs/src/transport/can.rs):  *)
(* identifier and fragment-header codecs, fragment_data, ReassemblyState,  *)
(* CanPublisher::publish_raw and CanSubscriber (subscribe, receive_timeout,*)
(* process_frame, cleanup_expired_states).                                 *)
(*                                                                         *)
(* Bytes are naturals in 0..255, byte vectors are sequences, Option<T> is  *)
(* a sequence of length 0 (None) or 1 (Some), a HashMap is a function on   *)
(* the set of its keys.  Time is a counter of clock ticks.                 *)
(***************************************************************************)
EXTENDS Integers, Sequences, FiniteSets, TLC

VARIABLES
    now,                    \* the clock read by Instant::now() / elapsed()
    config,                 \* CanConfig shared by publisher and subscriber
    pubs,                   \* publish_raw calls so far; a running call is the last entry
    bus,                    \* frames written to the socket and not yet read
    subscribed_categories,  \* CanSubscriber.subscribed_categories (Vec<u8>)
    reassembly_states,      \* CanSubscriber.reassembly_states (HashMap<u8, ReassemblyState>)
    rx,                     \* the receive_timeout call: position, start, timeout, result
    cur,                    \* history: the frame last handed to process_frame and the path it took
    samples,                \* history: the samples process_frame has returned
    feed,                   \* the message whose frames are handed to process_frame directly
    injected,               \* number of frames other bus participants have written
    call                    \* a call of one of the free functions: its arguments and its value

vars == <<now, config, pubs, bus, subscribed_categories, reassembly_states,
          rx, cur, samples, feed, injected, call>>

(***************************************************************************)
(* Bounds of the model.                                                    *)
(***************************************************************************)
MaxTime == 2            \* the clock stops here
MaxPublishes == 1       \* publish_raw calls per behaviour
MaxInject == 2          \* foreign frames per behaviour
ReassemblyTimeout == 1  \* config.reassembly_timeout_ms, in ticks
MaxSmallFrags == 4      \* most fragments of a message fed in every order
ReorderWindow == 3      \* how far ahead of the oldest unfed fragment a feed may reach
NumSeeds == 2           \* payload contents tried per length
EdgeLens == 2           \* lengths tried on each side of a fragment-count boundary
MaxArrivals == 2        \* frames arriving while the subscriber's progress is followed
MaxFragLen == 20        \* payload lengths given to fragment_data, beside the long ones
MaxChunk == 8           \* chunk sizes given to fragment_data, beside those of the profiles
WrapExtra == 2          \* fragments beyond 128 of the messages that wrap the header index
MaxTimeoutMs == 20      \* timeouts given to CanConfig::with_timeout
MaxCallers == 2         \* publish_raw calls that run at the same time
MaxRedeliver == 2       \* frames delivered again per behaviour
MaxSenders == 2         \* publishers that send on the bus at the same time

MaxDeliver == 9         \* frames of any identifier handed to one subscriber

(***************************************************************************)
(* Program constants (can.rs lines 103-114).                               *)
(***************************************************************************)
CAN_PAYLOAD_SIZE == 7
CANFD_PAYLOAD_SIZE == 63
FRAGMENT_LAST_FLAG == 128
FRAGMENT_INDEX_MASK == 127
DEFAULT_REASSEMBLY_TIMEOUT_MS == 1000

\* socketcan's classic CanFrame holds at most 8 data bytes ("8 bytes - 1 header byte")
CAN_MAX_DLEN == CAN_PAYLOAD_SIZE + 1
\* StandardId::new accepts 11-bit identifiers only
MAX_STANDARD_ID == 2048 - 1

None == <<>>
Some(x) == <<x>>

Contains(vec, x) == \E i \in 1..Len(vec) : vec[i] = x

(***************************************************************************)
(* Identifier codec.                                                       *)
(***************************************************************************)
build_can_id_four_bits(category, fragment_index) ==
    LET cat_high == (category \div 16) % 16
        frag == fragment_index
    IN  (cat_high * 256) + frag

\* fn build_can_id(category: u8, fragment_index: u8) -> u32
build_can_id(category, fragment_index) ==
    LET cat_high == (category \div 32) % 8
        frag == fragment_index
    IN  (cat_high * 256) + frag

parse_can_id_unshifted(can_id) ==
    LET cat_high == (can_id \div 256) % 8
        frag == can_id % 256
    IN  <<cat_high, frag>>

parse_can_id_four_bits(can_id) ==
    LET cat_high == (can_id \div 128) % 16
        frag == can_id % 256
    IN  <<(cat_high * 16) % 256, frag>>

\* fn parse_can_id(can_id: u32) -> (u8, u8)
parse_can_id(can_id) ==
    LET cat_high == (can_id \div 256) % 8
        frag == can_id % 256
    IN  <<(cat_high * 32) % 256, frag>>

(***************************************************************************)
(* Fragment header codec.                                                  *)
(***************************************************************************)
build_fragment_header_six_bits(fragment_index, is_last) ==
    LET header == fragment_index % 64
    IN  IF is_last THEN header + FRAGMENT_LAST_FLAG ELSE header

build_fragment_header_unmasked(fragment_index, is_last) ==
    LET header == fragment_index
    IN  IF is_last THEN (header % FRAGMENT_LAST_FLAG) + FRAGMENT_LAST_FLAG ELSE header

\* fn build_fragment_header(fragment_index: u8, is_last: bool) -> u8
build_fragment_header(fragment_index, is_last) ==
    LET header == fragment_index % (FRAGMENT_INDEX_MASK + 1)
    IN  IF is_last THEN header + FRAGMENT_LAST_FLAG ELSE header

parse_fragment_header_whole_byte(header) ==
    LET index == header
        is_last == (header \div FRAGMENT_LAST_FLAG) % 2 # 0
    IN  <<index, is_last>>

parse_fragment_header_always_last(header) ==
    <<header % (FRAGMENT_INDEX_MASK + 1), TRUE>>

\* fn parse_fragment_header(header: u8) -> (u8, bool)
parse_fragment_header(header) ==
    LET index == header % (FRAGMENT_INDEX_MASK + 1)
        is_last == (header \div FRAGMENT_LAST_FLAG) % 2 # 0
    IN  <<index, is_last>>

(***************************************************************************)
(* Fragmenter.                                                             *)
(***************************************************************************)
Min(a, b) == IF a < b THEN a ELSE b

fragment_step_never_last(s) ==
    LET total_size == Len(s.data)
    IN  IF s.offset < total_size
        THEN LET remaining == total_size - s.offset
                 chunk_size == Min(remaining, s.payload_size)
                 is_last == s.offset + chunk_size > total_size
                 fragment == <<build_fragment_header(s.fragment_index, is_last)>>
                                \o SubSeq(s.data, s.offset + 1, s.offset + chunk_size)
             IN  [s EXCEPT !.offset = s.offset + chunk_size,
                           !.fragment_index = (s.fragment_index + 1) % 256,
                           !.fragments = Append(s.fragments, fragment)]
        ELSE s

fragment_step_short(s) ==
    LET total_size == Len(s.data)
    IN  IF s.offset < total_size
        THEN LET remaining == total_size - s.offset
                 chunk_size == Min(remaining, s.payload_size)
                 is_last == s.offset + chunk_size >= total_size
                 fragment == <<build_fragment_header(s.fragment_index, is_last)>>
                                \o SubSeq(s.data, s.offset + 1, s.offset + chunk_size - 1)
             IN  [s EXCEPT !.offset = s.offset + chunk_size,
                           !.fragment_index = (s.fragment_index + 1) % 256,
                           !.fragments = Append(s.fragments, fragment)]
        ELSE s

\* one pass of the while loop of fragment_data (lines 293-307) over its locals
fragment_step(s) ==
    LET total_size == Len(s.data)
    IN  IF s.offset < total_size
        THEN LET remaining == total_size - s.offset
                 chunk_size == Min(remaining, s.payload_size)
                 is_last == s.offset + chunk_size >= total_size
                 fragment == <<build_fragment_header(s.fragment_index, is_last)>>
                                \o SubSeq(s.data, s.offset + 1, s.offset + chunk_size)
             IN  [s EXCEPT !.offset = s.offset + chunk_size,
                           !.fragment_index = (s.fragment_index + 1) % 256,
                           !.fragments = Append(s.fragments, fragment)]
        ELSE s

\* n passes of the while loop: fragment_step leaves the locals alone once
\* the loop's test fails, so n passes give the locals at the exit when the
\* loop ends within n passes.  The first half of the passes is evaluated
\* before the second half starts.
RECURSIVE fragment_loop(_, _)
fragment_loop(s, n) ==
    IF n = 0 THEN s
    ELSE IF n = 1 THEN fragment_step(s)
    ELSE CHOOSE r \in {fragment_loop(half, n - (n \div 2)) :
                           half \in {fragment_loop(s, n \div 2)}} : TRUE

fragment_data_header_only(category, data, payload_size) ==
    IF data = <<>>
    THEN <<<<build_fragment_header(0, TRUE)>>>>
    ELSE fragment_loop([data |-> data, payload_size |-> payload_size, offset |-> 0,
                        fragment_index |-> 0, fragments |-> <<>>],
                       Len(data)).fragments

\* fn fragment_data(_category: u8, data: &[u8], payload_size: usize) -> Vec<Vec<u8>>
\* every pass takes at least one byte (payload_size >= 1), so the loop ends
\* within Len(data) passes
fragment_data(category, data, payload_size) ==
    fragment_loop([data |-> data, payload_size |-> payload_size, offset |-> 0,
                   fragment_index |-> 0, fragments |-> <<>>],
                  Len(data)).fragments

(***************************************************************************)
(* ReassemblyState.                                                        *)
(***************************************************************************)
\* ReassemblyState::new
ReassemblyState_new(category, t) ==
    [category |-> category, fragments |-> <<>>, expected_next |-> 0, last_update |-> t]

\* HashMap::insert
Insert(map, k, v) == [x \in DOMAIN map \cup {k} |-> IF x = k THEN v ELSE map[x]]
\* HashMap::remove
Remove(map, k) == [x \in DOMAIN map \ {k} |-> map[x]]

\* one pass of the for loop of reassemble (lines 348-355) over i and result;
\* returned is set by the return of line 353
reassemble_step(s) ==
    IF s.returned \/ s.i > s.last_index
    THEN s
    ELSE IF s.i \in DOMAIN s.fragments
         THEN [s EXCEPT !.result = s.result \o s.fragments[s.i], !.i = s.i + 1]
         ELSE [s EXCEPT !.returned = TRUE]

\* n passes of the for loop, as in fragment_loop
RECURSIVE reassemble_loop(_, _)
reassemble_loop(s, n) ==
    IF n = 0 THEN s
    ELSE IF n = 1 THEN reassemble_step(s)
    ELSE CHOOSE r \in {reassemble_loop(half, n - (n \div 2)) :
                           half \in {reassemble_loop(s, n \div 2)}} : TRUE

reassemble_skip_missing(state, last_index) ==
    Some(reassemble_loop([fragments |-> [i \in 0..last_index |->
                                            IF i \in DOMAIN state.fragments
                                            THEN state.fragments[i] ELSE <<>>],
                          last_index |-> last_index, i |-> 0, result |-> <<>>,
                          returned |-> FALSE],
                         last_index + 1).result)

\* fn reassemble(&self, last_index: u8) -> Option<Vec<u8>>
reassemble(state, last_index) ==
    LET exit == reassemble_loop([fragments |-> state.fragments, last_index |-> last_index,
                                 i |-> 0, result |-> <<>>, returned |-> FALSE],
                                last_index + 1)
    IN  IF exit.returned THEN None ELSE Some(exit.result)

add_fragment_restart(state, index, data, is_last, t) ==
    LET kept == IF index = 0 THEN <<>> ELSE state.fragments
        updated == [state EXCEPT !.last_update = t,
                                 !.fragments = Insert(kept, index, data)]
    IN  [state |-> updated,
         result |-> IF is_last THEN reassemble(updated, index) ELSE None]

add_fragment_check_always(state, index, data, is_last, t) ==
    LET updated == [state EXCEPT !.last_update = t,
                                 !.fragments = Insert(state.fragments, index, data)]
        highest == CHOOSE i \in DOMAIN updated.fragments :
                      \A j \in DOMAIN updated.fragments : j <= i
    IN  [state |-> updated,
         result |-> reassemble(updated, IF is_last THEN index ELSE highest)]

add_fragment_keep_first(state, index, data, is_last, t) ==
    LET updated == [state EXCEPT !.last_update = t,
                                 !.fragments = IF index \in DOMAIN state.fragments
                                               THEN state.fragments
                                               ELSE Insert(state.fragments, index, data)]
    IN  [state |-> updated,
         result |-> IF is_last THEN reassemble(updated, index) ELSE None]

add_fragment_arrival(state, index, data, is_last, t) ==
    LET updated == [state EXCEPT !.last_update = t,
                                 !.fragments = Insert(state.fragments,
                                                      Cardinality(DOMAIN state.fragments), data)]
    IN  [state |-> updated,
         result |-> IF is_last THEN reassemble(updated, index) ELSE None]

\* fn add_fragment(&mut self, index: u8, data: Vec<u8>, is_last: bool) -> Option<Vec<u8>>
\* gives the state after the call and the value returned
add_fragment(state, index, data, is_last, t) ==
    LET updated == [state EXCEPT !.last_update = t,
                                 !.fragments = Insert(state.fragments, index, data)]
    IN  [state |-> updated,
         result |-> IF is_last THEN reassemble(updated, index) ELSE None]

is_expired_inclusive(state, timeout, t) ==
    t - state.last_update >= timeout

is_expired_never(state, timeout, t) == FALSE

\* fn is_expired(&self, timeout: Duration) -> bool
is_expired(state, timeout, t) ==
    t - state.last_update > timeout

(***************************************************************************)
(* CanConfig.                                                              *)
(***************************************************************************)
\* fn payload_size(&self) -> usize
payload_size(cfg) ==
    IF cfg.frame_type = "Classic" THEN CAN_PAYLOAD_SIZE ELSE CANFD_PAYLOAD_SIZE

\* CanConfig::new / CanConfig::with_fd followed by with_timeout
CanConfig(frame_type, timeout) ==
    [interface |-> "vcan0", frame_type |-> frame_type,
     reassembly_timeout_ms |-> timeout, enable_error_frames |-> TRUE]

(***************************************************************************)
(* CanSubscriber::process_frame and cleanup_expired_states.                *)
(***************************************************************************)
\* a frame on the bus: identifier, data field, and (history) the number of
\* the publish_raw call that wrote it, 0 for a frame of another participant
Frame(id, data, msg) == [id |-> id, data |-> data, msg |-> msg]

CanSample(category, data, t, cfg) ==
    [category |-> category, data |-> data, timestamp |-> t, interface |-> cfg.interface]

passes_filter_always(subscribed, category) == TRUE

passes_filter_listed(subscribed, category) == Contains(subscribed, category)

\* the subscription check of process_frame (can.rs line 629), negated
passes_filter(subscribed, category) ==
    ~(subscribed # <<>> /\ ~Contains(subscribed, category))

process_frame_by_sequence(frame, states, subscribed, cfg, t) ==
    LET can_id == frame.id
        data == frame.data
    IN  IF data = <<>>
        THEN [states |-> states, result |-> None, path |-> "empty"]
        ELSE LET cat_high == parse_can_id(can_id)[1]
                 frag_seq == parse_can_id(can_id)[2]
                 hdr == parse_fragment_header(data[1])
                 fragment_index == frag_seq
                 is_last == hdr[2]
                 payload == Tail(data)
                 category == cat_high
             IN  IF ~passes_filter(subscribed, category)
                 THEN [states |-> states, result |-> None, path |-> "filtered"]
                 ELSE LET state == IF category \in DOMAIN states
                                   THEN states[category]
                                   ELSE ReassemblyState_new(category, t)
                          added == add_fragment(state, fragment_index, payload, is_last, t)
                      IN  IF added.result # None
                          THEN [states |-> Remove(states, category),
                                result |-> Some(CanSample(category, added.result[1], t, cfg)),
                                path |-> "fed"]
                          ELSE [states |-> Insert(states, category, added.state),
                                result |-> None,
                                path |-> "fed"]

process_frame_create_first(frame, states, subscribed, cfg, t) ==
    LET can_id == frame.id
        data == frame.data
    IN  IF data = <<>>
        THEN [states |-> states, result |-> None, path |-> "empty"]
        ELSE LET cat_high == parse_can_id(can_id)[1]
                 hdr == parse_fragment_header(data[1])
                 fragment_index == hdr[1]
                 is_last == hdr[2]
                 payload == Tail(data)
                 category == cat_high
                 state == IF category \in DOMAIN states
                          THEN states[category]
                          ELSE ReassemblyState_new(category, t)
             IN  IF ~passes_filter(subscribed, category)
                 THEN [states |-> Insert(states, category, state), result |-> None,
                       path |-> "filtered"]
                 ELSE LET added == add_fragment(state, fragment_index, payload, is_last, t)
                      IN  IF added.result # None
                          THEN [states |-> Remove(states, category),
                                result |-> Some(CanSample(category, added.result[1], t, cfg)),
                                path |-> "fed"]
                          ELSE [states |-> Insert(states, category, added.state),
                                result |-> None,
                                path |-> "fed"]

process_frame_keep(frame, states, subscribed, cfg, t) ==
    LET can_id == frame.id
        data == frame.data
    IN  IF data = <<>>
        THEN [states |-> states, result |-> None, path |-> "empty"]
        ELSE LET cat_high == parse_can_id(can_id)[1]
                 hdr == parse_fragment_header(data[1])
                 fragment_index == hdr[1]
                 is_last == hdr[2]
                 payload == Tail(data)
                 category == cat_high
             IN  IF ~passes_filter(subscribed, category)
                 THEN [states |-> states, result |-> None, path |-> "filtered"]
                 ELSE LET state == IF category \in DOMAIN states
                                   THEN states[category]
                                   ELSE ReassemblyState_new(category, t)
                          added == add_fragment(state, fragment_index, payload, is_last, t)
                      IN  IF added.result # None
                          THEN [states |-> Insert(states, category, added.state),
                                result |-> Some(CanSample(category, added.result[1], t, cfg)),
                                path |-> "fed"]
                          ELSE [states |-> Insert(states, category, added.state),
                                result |-> None,
                                path |-> "fed"]

\* fn process_frame(&mut self, frame: &CanFrame) -> Result<Option<CanSample>, CanError>
\* gives reassembly_states after the call, the Option returned inside Ok, and
\* the path taken: "empty" (line 614), "filtered" (line 631) or "fed" (line 641)
process_frame(frame, states, subscribed, cfg, t) ==
    LET can_id == frame.id
        data == frame.data
    IN  IF data = <<>>
        THEN [states |-> states, result |-> None, path |-> "empty"]
        ELSE LET cat_high == parse_can_id(can_id)[1]
                 hdr == parse_fragment_header(data[1])
                 fragment_index == hdr[1]
                 is_last == hdr[2]
                 payload == Tail(data)
                 category == cat_high
             IN  IF ~passes_filter(subscribed, category)
                 THEN [states |-> states, result |-> None, path |-> "filtered"]
                 ELSE LET state == IF category \in DOMAIN states
                                   THEN states[category]
                                   ELSE ReassemblyState_new(category, t)
                          added == add_fragment(state, fragment_index, payload, is_last, t)
                      IN  IF added.result # None
                          THEN [states |-> Remove(states, category),
                                result |-> Some(CanSample(category, added.result[1], t, cfg)),
                                path |-> "fed"]
                          ELSE [states |-> Insert(states, category, added.state),
                                result |-> None,
                                path |-> "fed"]

cleanup_expired_states_all(states, cfg, t) ==
    [k \in {} |-> states[k]]

\* fn cleanup_expired_states(&mut self)
cleanup_expired_states(states, cfg, t) ==
    LET timeout == cfg.reassembly_timeout_ms
        kept == {k \in DOMAIN states : ~is_expired(states[k], timeout, t)}
    IN  [k \in kept |-> states[k]]

\* what a call of process_frame leaves in the history variables
Processed(frame, pf) ==
    /\ reassembly_states' = pf.states
    /\ cur' = [frame |-> frame, path |-> pf.path]
    /\ samples' = IF pf.result = None THEN samples
                  ELSE Append(samples, [sample |-> pf.result[1], msg |-> frame.msg])

(***************************************************************************)
(* Inputs.                                                                 *)
(***************************************************************************)
\* categories published and subscribed: 48 and 62 share their high 3 bits,
\* 64 has other high bits and no low bits
Cats == {48, 62, 64}

\* a payload of the given length; bytes differ from place to place
Gen(len, seed) == [i \in 1..len |-> (seed + (37 * (i - 1))) % 256]

\* scenario A of the specification
ScenarioA == <<48, 0, 8, 1, 2, 3, 4, 5>>

Payloads == {<<>>, <<48>>, ScenarioA}

\* receive() waits for the reassembly timeout (line 548); callers of
\* receive_timeout also wait longer
RxTimeouts == {ReassemblyTimeout, ReassemblyTimeout + 1}

\* categories subscribed to: 48 never equals a decoded category, 64 does
SubCats == {48, 64}

\* no free function is being called
NoCall == [fn |-> "none", args |-> <<>>, value |-> None]
NoFrame == Frame(0, <<>>, 0)
NoFeed == [frames |-> <<>>, data |-> <<>>, payload_size |-> 0, fed |-> {},
           reordered |-> FALSE, withheld |-> 0, window |-> 0, last_any |-> FALSE]
\* no receive_timeout call is running; result is what the last call returned
Returned(result) == [pc |-> "idle", start |-> 0, timeout |-> 0, result |-> result]

(***************************************************************************)
(* State after CanPublisher::new and CanSubscriber::new.                   *)
(***************************************************************************)
InitCommon ==
    /\ now = 0
    /\ pubs = <<>>
    /\ bus = <<>>
    /\ subscribed_categories = <<>>
    /\ reassembly_states = <<>>
    /\ rx = Returned("-")
    /\ cur = [frame |-> NoFrame, path |-> "none"]
    /\ samples = <<>>
    /\ injected = 0

Init ==
    /\ InitCommon
    /\ call = NoCall
    /\ config = CanConfig("Classic", ReassemblyTimeout)
    /\ feed = NoFeed

(***************************************************************************)
(* CanPublisher::publish_raw, one frame per step.                          *)
(***************************************************************************)
Running(p) == p.result = "running"
NoneRunning == \A m \in 1..Len(pubs) : ~Running(pubs[m])

\* lines 453-454, and line 471 when there is nothing to send; an entry of
\* pubs holds the call's arguments and locals, its result, and (history) the
\* frames it has written and the subscriber's allow-list when it was made
publish_raw(category, data) ==
    /\ Len(pubs) < MaxPublishes
    /\ NoneRunning
    /\ LET fragments == fragment_data(category, data, payload_size(config))
       IN  pubs' = Append(pubs, [category |-> category, data |-> data,
                                 fragments |-> fragments, idx |-> 0,
                                 result |-> IF fragments = <<>> THEN "Ok" ELSE "running",
                                 sent |-> <<>>,
                                 subscribed_at_call |-> subscribed_categories])
    /\ UNCHANGED <<now, config, bus, subscribed_categories, reassembly_states,
                   rx, cur, samples, feed, injected, call>>

send_id_header_index(category, idx) ==
    build_can_id(category, idx % (FRAGMENT_INDEX_MASK + 1))

\* the identifier of the frame at position idx (line 457): idx as u8
send_id(category, idx) == build_can_id(category, idx % 256)

frame_ok_fd(can_id, fragment) ==
    /\ can_id <= MAX_STANDARD_ID
    /\ Len(fragment) <= CANFD_PAYLOAD_SIZE + 1

\* StandardId::new and CanFrame::new of lines 460-464 succeed
frame_ok(can_id, fragment) ==
    /\ can_id <= MAX_STANDARD_ID
    /\ Len(fragment) <= CAN_MAX_DLEN

\* one iteration of the for loop, lines 456-469, write_frame succeeding
publish_send ==
    /\ pubs # <<>>
    /\ LET m == Len(pubs)
           p == pubs[m]
       IN  /\ Running(p)
           /\ LET fragment == p.fragments[p.idx + 1]
                  can_id == send_id(p.category, p.idx)
              IN  IF frame_ok(can_id, fragment)
                  THEN /\ bus' = Append(bus, Frame(can_id, fragment, m))
                       /\ pubs' = [pubs EXCEPT ![m].idx = p.idx + 1,
                                               ![m].sent = Append(p.sent, Frame(can_id, fragment, m)),
                                               ![m].result = IF p.idx + 1 = Len(p.fragments)
                                                             THEN "Ok" ELSE "running"]
                  ELSE /\ bus' = bus
                       /\ pubs' = [pubs EXCEPT ![m].result = "SendError"]
    /\ UNCHANGED <<now, config, subscribed_categories, reassembly_states,
                   rx, cur, samples, feed, injected, call>>

publish_send_fail_rollback ==
    /\ pubs # <<>>
    /\ LET m == Len(pubs)
           p == pubs[m]
       IN  /\ Running(p)
           /\ frame_ok(send_id(p.category, p.idx), p.fragments[p.idx + 1])
           /\ pubs' = [pubs EXCEPT ![m].result = "SendError", ![m].sent = <<>>,
                                   ![m].idx = 0]
           /\ bus' = SubSeq(bus, 1, Len(bus) - Cardinality({i \in 1..Len(bus) : bus[i].msg = m}))
    /\ UNCHANGED <<now, config, subscribed_categories, reassembly_states,
                   rx, cur, samples, feed, injected, call>>

\* the same iteration, write_frame failing (line 468)
publish_send_fail ==
    /\ pubs # <<>>
    /\ LET m == Len(pubs)
           p == pubs[m]
       IN  /\ Running(p)
           /\ frame_ok(send_id(p.category, p.idx), p.fragments[p.idx + 1])
           /\ pubs' = [pubs EXCEPT ![m].result = "SendError"]
    /\ UNCHANGED <<now, config, bus, subscribed_categories, reassembly_states,
                   rx, cur, samples, feed, injected, call>>

(***************************************************************************)
(* CanSubscriber.                                                          *)
(***************************************************************************)
subscribe_push(category) ==
    /\ rx.pc = "idle"
    /\ subscribed_categories' = Append(subscribed_categories, category)
    /\ UNCHANGED <<now, config, pubs, bus, reassembly_states, rx, cur, samples,
                   feed, injected, call>>

\* pub fn subscribe(&mut self, category: u8) -> Result<(), CanError>
subscribe(category) ==
    /\ rx.pc = "idle"
    /\ subscribed_categories' =
          IF ~Contains(subscribed_categories, category)
          THEN Append(subscribed_categories, category)
          ELSE subscribed_categories
    /\ UNCHANGED <<now, config, pubs, bus, reassembly_states, rx, cur, samples,
                   feed, injected, call>>

\* receive_timeout is entered: line 577
receive_timeout(timeout) ==
    /\ rx.pc = "idle"
    /\ rx' = [pc |-> "loop", start |-> now, timeout |-> timeout, result |-> "-"]
    /\ UNCHANGED <<now, config, pubs, bus, subscribed_categories,
                   reassembly_states, cur, samples, feed, injected, call>>

receive_loop_forever ==
    /\ rx.pc = "loop"
    /\ reassembly_states' = cleanup_expired_states(reassembly_states, config, now)
    /\ rx' = [rx EXCEPT !.pc = "read"]
    /\ UNCHANGED <<now, config, pubs, bus, subscribed_categories, cur, samples,
                   feed, injected, call>>

\* the loop test and the cleanup at the top of the body: lines 579-581;
\* line 599 when the test fails
receive_loop ==
    /\ rx.pc = "loop"
    /\ IF now - rx.start < rx.timeout
       THEN /\ reassembly_states' = cleanup_expired_states(reassembly_states, config, now)
            /\ rx' = [rx EXCEPT !.pc = "read"]
       ELSE /\ reassembly_states' = reassembly_states
            /\ rx' = Returned("OkNone")
    /\ UNCHANGED <<now, config, pubs, bus, subscribed_categories, cur, samples,
                   feed, injected, call>>

receive_frame_fresh ==
    /\ rx.pc = "read"
    /\ bus # <<>>
    /\ LET frame == Head(bus)
           live == cleanup_expired_states(reassembly_states, config, now)
           pf == process_frame(frame, live, subscribed_categories, config, now)
       IN  /\ Processed(frame, pf)
           /\ rx' = IF pf.result # None
                    THEN Returned("OkSome")
                    ELSE [rx EXCEPT !.pc = "loop"]
    /\ bus' = Tail(bus)
    /\ UNCHANGED <<now, config, pubs, subscribed_categories, feed, injected, call>>

receive_frame_strict ==
    /\ rx.pc = "read"
    /\ bus # <<>>
    /\ LET frame == Head(bus)
           pf == process_frame(frame, reassembly_states, subscribed_categories, config, now)
       IN  /\ Processed(frame, pf)
           /\ rx' = IF pf.result # None
                    THEN Returned("OkSome")
                    ELSE IF pf.path = "fed" /\ frame.data[1] >= FRAGMENT_LAST_FLAG
                         THEN Returned("FragmentError")
                         ELSE [rx EXCEPT !.pc = "loop"]
    /\ bus' = Tail(bus)
    /\ UNCHANGED <<now, config, pubs, subscribed_categories, feed, injected, call>>

receive_frame_continue ==
    /\ rx.pc = "read"
    /\ bus # <<>>
    /\ LET frame == Head(bus)
           pf == process_frame(frame, reassembly_states, subscribed_categories, config, now)
       IN  /\ Processed(frame, pf)
           /\ rx' = [rx EXCEPT !.pc = "loop"]
    /\ bus' = Tail(bus)
    /\ UNCHANGED <<now, config, pubs, subscribed_categories, feed, injected, call>>

\* read_frame gives a frame, which is processed: lines 585-589
receive_frame ==
    /\ rx.pc = "read"
    /\ bus # <<>>
    /\ LET frame == Head(bus)
           pf == process_frame(frame, reassembly_states, subscribed_categories, config, now)
       IN  /\ Processed(frame, pf)
           /\ rx' = IF pf.result # None
                    THEN Returned("OkSome")
                    ELSE [rx EXCEPT !.pc = "loop"]
    /\ bus' = Tail(bus)
    /\ UNCHANGED <<now, config, pubs, subscribed_categories, feed, injected, call>>

\* read_frame blocks for its read timeout and gives WouldBlock, then the
\* thread sleeps: lines 590-594.  The clock stops at MaxTime, where a call
\* goes on only if its timeout has elapsed already.
receive_would_block ==
    /\ rx.pc = "read"
    /\ bus = <<>>
    /\ now < MaxTime \/ now - rx.start >= rx.timeout
    /\ now' = Min(now + 1, MaxTime)
    /\ rx' = [rx EXCEPT !.pc = "loop"]
    /\ UNCHANGED <<config, pubs, bus, subscribed_categories, reassembly_states,
                   cur, samples, feed, injected, call>>

receive_error_retry ==
    /\ rx.pc = "read"
    /\ rx' = [rx EXCEPT !.pc = "loop"]
    /\ UNCHANGED <<now, config, pubs, bus, subscribed_categories,
                   reassembly_states, cur, samples, feed, injected, call>>

\* read_frame fails with another error: line 595
receive_error ==
    /\ rx.pc = "read"
    /\ rx' = Returned("ReceiveError")
    /\ UNCHANGED <<now, config, pubs, bus, subscribed_categories,
                   reassembly_states, cur, samples, feed, injected, call>>

\* time passes
Tick ==
    /\ now < MaxTime
    /\ now' = now + 1
    /\ UNCHANGED <<config, pubs, bus, subscribed_categories, reassembly_states,
                   rx, cur, samples, feed, injected, call>>

Publish == \E c \in Cats, d \in Payloads : publish_raw(c, d)
Subscribe == \E c \in SubCats : subscribe(c)
Receive == \E t \in RxTimeouts : receive_timeout(t)

Next ==
    \/ Publish
    \/ publish_send
    \/ publish_send_fail
    \/ Subscribe
    \/ Receive
    \/ receive_loop
    \/ receive_frame
    \/ receive_would_block
    \/ receive_error
    \/ Tick

Spec == Init /\ [][Next]_vars

(***************************************************************************)
(* Other participants of the bus write frames of their own.                *)
(***************************************************************************)
\* identifiers with category bits 1 (and sequence bits set) and 2
ForeignIds == {build_can_id(62, 5), build_can_id(64, 0)}
\* no data; index 0 and 1, last and not last
ForeignData == {<<>>, <<0, 10>>, <<1, 11>>, <<FRAGMENT_LAST_FLAG, 12>>,
                <<FRAGMENT_LAST_FLAG + 1, 13>>}

Inject ==
    /\ injected < MaxInject
    /\ injected' = injected + 1
    /\ \E id \in ForeignIds, data \in ForeignData : bus' = Append(bus, Frame(id, data, 0))
    /\ UNCHANGED <<now, config, pubs, subscribed_categories, reassembly_states,
                   rx, cur, samples, feed, call>>

NextBus ==
    \/ Inject
    \/ Subscribe
    \/ Receive
    \/ receive_loop
    \/ receive_frame
    \/ receive_would_block
    \/ receive_error
    \/ Tick

\* a subscriber on a bus that carries the frames of other participants
SpecBus == Init /\ [][NextBus]_vars

(***************************************************************************)
(* The subscriber's thread keeps running: a receive_timeout call that has  *)
(* been entered goes on through its loop.  The clock is bounded, so a call *)
(* is entered only while its timeout can still elapse.                     *)
(***************************************************************************)
ReceiveInTime ==
    \E t \in RxTimeouts :
       /\ now + t <= MaxTime
       /\ receive_timeout(t)

\* frames that arrive meanwhile: stored without completing a message (index
\* 1, not last), completing one (index 0, last), or of a category that an
\* allow-list of 64 keeps out
LiveFrames ==
    {Frame(build_can_id(64, 0), <<1, 11>>, 0),
     Frame(build_can_id(64, 0), <<FRAGMENT_LAST_FLAG, 12>>, 0),
     Frame(build_can_id(62, 5), <<1, 11>>, 0)}

Arrive ==
    /\ injected < MaxArrivals
    /\ injected' = injected + 1
    /\ \E frame \in LiveFrames : bus' = Append(bus, frame)
    /\ UNCHANGED <<now, config, pubs, subscribed_categories, reassembly_states,
                   rx, cur, samples, feed, call>>

NextLive ==
    \/ Arrive
    \/ Subscribe
    \/ ReceiveInTime
    \/ receive_loop
    \/ receive_frame
    \/ receive_would_block
    \/ receive_error
    \/ Tick

SpecLive ==
    /\ Init
    /\ [][NextLive]_vars
    /\ WF_vars(receive_loop)
    /\ WF_vars(receive_frame)
    /\ WF_vars(receive_would_block)

(***************************************************************************)
(* One publish_raw call, for either frame profile and any payload.         *)
(***************************************************************************)
\* three classic fragments; the longest payload of 128 classic fragments and
\* the shortest of 129
LongPayloads ==
    {Gen((2 * CAN_PAYLOAD_SIZE) + 1, 1)}
    \cup {Gen(((FRAGMENT_INDEX_MASK + 1) * CAN_PAYLOAD_SIZE) + d, 1) : d \in 0..1}

InitPublish ==
    /\ InitCommon
    /\ call = NoCall
    /\ config \in {CanConfig(ft, ReassemblyTimeout) : ft \in {"Classic", "Fd"}}
    /\ feed = NoFeed

\* one full chunk of each frame profile
ProfilePayloads == {Gen(CAN_PAYLOAD_SIZE, 1), Gen(CANFD_PAYLOAD_SIZE, 1)}

PublishOne ==
    /\ pubs = <<>>
    /\ \E c \in Cats, d \in Payloads \cup LongPayloads \cup ProfilePayloads :
          publish_raw(c, d)

NextPublish ==
    \/ PublishOne
    \/ publish_send
    \/ publish_send_fail

SpecPublish == InitPublish /\ [][NextPublish]_vars

(***************************************************************************)
(* The frames of one message handed to process_frame directly.             *)
(***************************************************************************)
\* the frames publish_raw makes of a payload: fragment k (from 1) under the
\* identifier of line 457
FramesOf(category, data, psize) ==
    LET fragments == fragment_data(category, data, psize)
    IN  [k \in 1..Len(fragments) |-> Frame(send_id(category, k - 1), fragments[k], 1)]

\* withheld is the position of the fragment never fed (0: none); a feed
\* reaches at most window positions past the oldest unfed fragment, and the
\* last fragment at any time when last_any; reordered tells that a fragment
\* was fed before an older one
MkFeed(category, data, psize, withheld, window, last_any) ==
    [frames |-> FramesOf(category, data, psize), data |-> data, payload_size |-> psize,
     fed |-> {}, reordered |-> FALSE,
     withheld |-> withheld, window |-> window, last_any |-> last_any]

NFrames == Len(feed.frames)
Unfed == (1..NFrames) \ (feed.fed \cup {feed.withheld})
Oldest == CHOOSE k \in Unfed : \A j \in Unfed : k <= j

feed_frame(k) ==
    /\ k \in Unfed
    /\ \/ k < Oldest + feed.window
       \/ feed.last_any /\ k = NFrames
    /\ LET frame == feed.frames[k]
           pf == process_frame(frame, reassembly_states, subscribed_categories, config, now)
       IN  Processed(frame, pf)
    /\ feed' = [feed EXCEPT !.fed = feed.fed \cup {k},
                            !.reordered = feed.reordered \/ k # Oldest]
    /\ UNCHANGED <<now, config, pubs, bus, subscribed_categories, rx, injected, call>>

NextFeed == \E k \in 1..NFrames : feed_frame(k)

\* payload lengths: the short ones, and those around 4, 16, 64 and 128 fragments
FragCounts == {4, 16, 64, FRAGMENT_INDEX_MASK + 1}
RoundTripMax(psize) ==
    IF psize = CAN_PAYLOAD_SIZE THEN (FRAGMENT_INDEX_MASK + 1) * CAN_PAYLOAD_SIZE
    ELSE FRAGMENT_INDEX_MASK * CANFD_PAYLOAD_SIZE
RoundTripLens(psize) ==
    {n \in 0..RoundTripMax(psize) :
        \/ n <= (2 * psize) + EdgeLens
        \/ RoundTripMax(psize) - n <= EdgeLens
        \/ \E c \in FragCounts : n - (c * psize) \in (0 - EdgeLens)..EdgeLens}

\* every fragment of a payload, in order, into a subscriber without state
InitRoundTrip ==
    /\ InitCommon
    /\ call = NoCall
    /\ \E ft \in {"Classic", "Fd"} :
          /\ config = CanConfig(ft, ReassemblyTimeout)
          /\ \E n \in RoundTripLens(payload_size(config)), seed \in 1..NumSeeds :
                feed = MkFeed(48, Gen(n, seed), payload_size(config), 0, 1, FALSE)

SpecRoundTrip == InitRoundTrip /\ [][NextFeed]_vars

\* messages of 1..MaxSmallFrags fragments, of 128 and of 129 fragments
OrderLens ==
    {(c * CAN_PAYLOAD_SIZE) - d : c \in 1..MaxSmallFrags, d \in {0, CAN_PAYLOAD_SIZE - 1}}
    \cup {((FRAGMENT_INDEX_MASK + 1) * CAN_PAYLOAD_SIZE) + d : d \in 0..1}
FragsOfLen(n, psize) == (n + psize - 1) \div psize
\* the non-last fragments that may be withheld from a message of c fragments
Withholdable(c) ==
    IF c <= MaxSmallFrags THEN 1..(c - 1) ELSE {1, c - 1}
\* short messages in every order; long ones with neighbours swapped
OrderWindow(c) == IF c <= MaxSmallFrags THEN ReorderWindow ELSE Min(ReorderWindow, 2)

\* the fragments of a message in any order within the window, one of them
\* possibly withheld
InitOrder ==
    /\ InitCommon
    /\ call = NoCall
    /\ config = CanConfig("Classic", ReassemblyTimeout)
    /\ \E n \in OrderLens :
          LET c == FragsOfLen(n, CAN_PAYLOAD_SIZE)
          IN  \E w \in {0} \cup Withholdable(c) :
                 feed = MkFeed(48, Gen(n, 1), CAN_PAYLOAD_SIZE, w,
                               OrderWindow(c), c <= MaxSmallFrags)

SpecOrder == InitOrder /\ [][NextFeed]_vars

(***************************************************************************)
(* Several callers in publish_raw on one CanPublisher (&self) at a time:   *)
(* every call has its own fragments and idx, and write_frame puts one      *)
(* frame on the bus at a time.                                             *)
(***************************************************************************)
\* a caller enters publish_raw while others may be running: lines 453-454
publish_raw_enter(category, data) ==
    /\ Len(pubs) < MaxCallers
    /\ LET fragments == fragment_data(category, data, payload_size(config))
       IN  pubs' = Append(pubs, [category |-> category, data |-> data,
                                 fragments |-> fragments, idx |-> 0,
                                 result |-> IF fragments = <<>> THEN "Ok" ELSE "running",
                                 sent |-> <<>>,
                                 subscribed_at_call |-> subscribed_categories])
    /\ UNCHANGED <<now, config, bus, subscribed_categories, reassembly_states,
                   rx, cur, samples, feed, injected, call>>

publish_send_of_shared_idx(m) ==
    /\ m \in 1..Len(pubs)
    /\ LET p == pubs[m]
           shared == pubs[1].idx
       IN  /\ Running(p)
           /\ LET fragment == p.fragments[Min(shared, Len(p.fragments) - 1) + 1]
                  can_id == send_id(p.category, shared)
              IN  /\ bus' = Append(bus, Frame(can_id, fragment, m))
                  /\ pubs' = [pubs EXCEPT ![m].idx = p.idx + 1,
                                          ![m].sent = Append(p.sent, Frame(can_id, fragment, m)),
                                          ![m].result = IF p.idx + 1 = Len(p.fragments)
                                                        THEN "Ok" ELSE "running"]
    /\ UNCHANGED <<now, config, subscribed_categories, reassembly_states,
                   rx, cur, samples, feed, injected, call>>

\* one iteration of the for loop of call m, lines 456-469
publish_send_of(m) ==
    /\ m \in 1..Len(pubs)
    /\ LET p == pubs[m]
       IN  /\ Running(p)
           /\ LET fragment == p.fragments[p.idx + 1]
                  can_id == send_id(p.category, p.idx)
              IN  IF frame_ok(can_id, fragment)
                  THEN /\ bus' = Append(bus, Frame(can_id, fragment, m))
                       /\ pubs' = [pubs EXCEPT ![m].idx = p.idx + 1,
                                               ![m].sent = Append(p.sent, Frame(can_id, fragment, m)),
                                               ![m].result = IF p.idx + 1 = Len(p.fragments)
                                                             THEN "Ok" ELSE "running"]
                  ELSE /\ bus' = bus
                       /\ pubs' = [pubs EXCEPT ![m].result = "SendError"]
    /\ UNCHANGED <<now, config, subscribed_categories, reassembly_states,
                   rx, cur, samples, feed, injected, call>>

\* the same iteration of call m, write_frame failing (line 468)
publish_send_fail_of(m) ==
    /\ m \in 1..Len(pubs)
    /\ Running(pubs[m])
    /\ frame_ok(send_id(pubs[m].category, pubs[m].idx), pubs[m].fragments[pubs[m].idx + 1])
    /\ pubs' = [pubs EXCEPT ![m].result = "SendError"]
    /\ UNCHANGED <<now, config, bus, subscribed_categories, reassembly_states,
                   rx, cur, samples, feed, injected, call>>

\* two and three classic fragments
CallerPayloads == {ScenarioA, Gen((2 * CAN_PAYLOAD_SIZE) + 1, 1)}

Enter == \E c \in SubCats, d \in CallerPayloads : publish_raw_enter(c, d)
Send == \E m \in 1..MaxCallers : publish_send_of(m)
SendFail == \E m \in 1..MaxCallers : publish_send_fail_of(m)

NextCallers ==
    \/ Enter
    \/ Send
    \/ SendFail

SpecCallers == Init /\ [][NextCallers]_vars

(***************************************************************************)
(* Messages of more fragments than the header index can number, fed in     *)
(* order.                                                                  *)
(***************************************************************************)
\* fragment counts just past 128, and around 256 where the u8 counter wraps
WrapCounts ==
    {FRAGMENT_INDEX_MASK + 1 + d : d \in 1..WrapExtra}
    \cup {(2 * (FRAGMENT_INDEX_MASK + 1)) + d : d \in -1..1}

\* payloads whose last fragment is one byte or a full chunk
InitWrap ==
    /\ InitCommon
    /\ call = NoCall
    /\ config = CanConfig("Classic", ReassemblyTimeout)
    /\ \E c \in WrapCounts, d \in {1, CAN_PAYLOAD_SIZE} :
          feed = MkFeed(48, Gen(((c - 1) * CAN_PAYLOAD_SIZE) + d, 1),
                        CAN_PAYLOAD_SIZE, 0, 1, FALSE)

SpecWrap == InitWrap /\ [][NextFeed]_vars

(***************************************************************************)
(* The frames of a message fed in order, frames already fed arriving       *)
(* again: the same frame, or one with the same identifier and header byte  *)
(* and other payload bytes.                                                *)
(***************************************************************************)
\* a frame like the given one, of another sender, with every payload byte changed
Altered(frame) ==
    Frame(frame.id,
          <<frame.data[1]>> \o [i \in 1..(Len(frame.data) - 1) |-> (frame.data[i + 1] + 1) % 256],
          0)

redeliver(k, changed) ==
    /\ k \in feed.fed
    /\ injected < MaxRedeliver
    /\ injected' = injected + 1
    /\ LET frame == IF changed THEN Altered(feed.frames[k]) ELSE feed.frames[k]
           pf == process_frame(frame, reassembly_states, subscribed_categories, config, now)
       IN  Processed(frame, pf)
    /\ UNCHANGED <<now, config, pubs, bus, subscribed_categories, rx, feed, call>>

Redeliver == \E k \in 1..NFrames, changed \in BOOLEAN : redeliver(k, changed)

NextRedeliver ==
    \/ NextFeed
    \/ Redeliver

\* messages of one, two and three fragments
InitRedeliver ==
    /\ InitCommon
    /\ call = NoCall
    /\ config = CanConfig("Classic", ReassemblyTimeout)
    /\ \E c \in 1..3, d \in {0, CAN_PAYLOAD_SIZE - 1} :
          feed = MkFeed(48, Gen((c * CAN_PAYLOAD_SIZE) - d, 1), CAN_PAYLOAD_SIZE, 0, 1, FALSE)

SpecRedeliver == InitRedeliver /\ [][NextRedeliver]_vars

(***************************************************************************)
(* Frames of every value of the identifier's category bits handed to       *)
(* process_frame directly.                                                 *)
(***************************************************************************)
\* one category for each value of the high 3 bits, and 62, which shares
\* them with 48
KeyCats == {0, 48, 62, 64, 96, 128, 160, 192, 255}
\* the sequence numbers the identifiers are built with
KeySeqs == {0, 255}
\* the bit an extended identifier (Id::Extended, line 608) has above the 11
\* of a standard one
ExtendedBit == 2048
\* identifiers as build_can_id makes them, and an extended one
KeyIds ==
    {build_can_id(c, 0) : c \in KeyCats \ {62}}
       \cup {build_can_id(62, 255), ExtendedBit + build_can_id(48, 0)}
\* a chunk of index 1 that completes nothing, under any identifier; a
\* message of one fragment under the identifier of category 62
KeyFrames ==
    {Frame(id, <<1, 11>>, 0) : id \in KeyIds}
       \cup {Frame(build_can_id(62, 255), <<FRAGMENT_LAST_FLAG, 12>>, 0)}

deliver(frame) ==
    /\ injected < MaxDeliver
    /\ injected' = injected + 1
    /\ LET pf == process_frame(frame, reassembly_states, subscribed_categories, config, now)
       IN  Processed(frame, pf)
    /\ UNCHANGED <<now, config, pubs, bus, subscribed_categories, rx, feed, call>>

Deliver == \E frame \in KeyFrames : deliver(frame)

NextKeys == Deliver

SpecKeys == Init /\ [][NextKeys]_vars

(***************************************************************************)
(* Several publishers on one bus, each in a publish_raw call of its own,   *)
(* and a subscriber reading what they send.                                *)
(***************************************************************************)
\* messages of two fragments under categories with the same high 3 bits,
\* and one of three fragments
SenderMessages ==
    {<<48, ScenarioA>>, <<62, Gen(CAN_PAYLOAD_SIZE + 1, 2)>>,
     <<48, Gen((2 * CAN_PAYLOAD_SIZE) + 1, 3)>>}

\* a publisher enters publish_raw: lines 453-454
sender_publish_raw(category, data) ==
    /\ Len(pubs) < MaxSenders
    /\ LET fragments == fragment_data(category, data, payload_size(config))
       IN  pubs' = Append(pubs, [category |-> category, data |-> data,
                                 fragments |-> fragments, idx |-> 0,
                                 result |-> IF fragments = <<>> THEN "Ok" ELSE "running",
                                 sent |-> <<>>,
                                 subscribed_at_call |-> subscribed_categories])
    /\ UNCHANGED <<now, config, bus, subscribed_categories, reassembly_states,
                   rx, cur, samples, feed, injected, call>>

SenderEnter == \E msg \in SenderMessages : sender_publish_raw(msg[1], msg[2])
SenderSend == \E m \in 1..MaxSenders : publish_send_of(m)

NextInterleave ==
    \/ SenderEnter
    \/ SenderSend
    \/ Receive
    \/ receive_loop
    \/ receive_frame

SpecInterleave == Init /\ [][NextInterleave]_vars

(***************************************************************************)
(* Calls of the free functions on arguments of their whole domain.         *)
(***************************************************************************)
Bytes == 0..255

\* the state of publisher, subscriber and bus
program == <<now, config, pubs, bus, subscribed_categories, reassembly_states,
             rx, cur, samples, feed, injected>>

\* socketcan's StandardId::new(raw: u16) -> Option<StandardId>, as used at
\* line 460
StandardId_new(raw) == IF raw <= MAX_STANDARD_ID THEN Some(raw) ELSE None

\* a call of an encoder on any arguments; decoded is what the decoder then
\* makes of the value
InitCodec ==
    /\ InitCommon
    /\ config = CanConfig("Classic", ReassemblyTimeout)
    /\ feed = NoFeed
    /\ \/ \E category \in Bytes, fragment_index \in Bytes :
             call = [fn |-> "build_can_id", args |-> <<category, fragment_index>>,
                     value |-> None, decoded |-> None]
       \/ \E fragment_index \in Bytes, is_last \in BOOLEAN :
             call = [fn |-> "build_fragment_header", args |-> <<fragment_index, is_last>>,
                     value |-> None, decoded |-> None]

call_build_can_id ==
    /\ call.fn = "build_can_id"
    /\ call.value = None
    /\ call' = [call EXCEPT !.value = Some(build_can_id(call.args[1], call.args[2]))]
    /\ UNCHANGED program

call_parse_can_id ==
    /\ call.fn = "build_can_id"
    /\ call.value # None
    /\ call.decoded = None
    /\ call' = [call EXCEPT !.decoded = Some(parse_can_id(call.value[1]))]
    /\ UNCHANGED program

call_build_fragment_header ==
    /\ call.fn = "build_fragment_header"
    /\ call.value = None
    /\ call' = [call EXCEPT !.value = Some(build_fragment_header(call.args[1], call.args[2]))]
    /\ UNCHANGED program

call_parse_fragment_header ==
    /\ call.fn = "build_fragment_header"
    /\ call.value # None
    /\ call.decoded = None
    /\ call' = [call EXCEPT !.decoded = Some(parse_fragment_header(call.value[1]))]
    /\ UNCHANGED program

NextCodec ==
    \/ call_build_can_id
    \/ call_parse_can_id
    \/ call_build_fragment_header
    \/ call_parse_fragment_header

SpecCodec == InitCodec /\ [][NextCodec]_vars

\* payload lengths: every short one, the 200 bytes of the specification's
\* example, and 300, which in chunks of 1 takes the u8 fragment counter past 255
FragLens == (0..MaxFragLen) \cup {200, 300}
\* chunk sizes: every small one and those of the two frame profiles
ChunkSizes == (1..MaxChunk) \cup {CAN_PAYLOAD_SIZE, CANFD_PAYLOAD_SIZE}

InitFragment ==
    /\ InitCommon
    /\ config = CanConfig("Classic", ReassemblyTimeout)
    /\ feed = NoFeed
    /\ \E n \in FragLens, c \in ChunkSizes :
          call = [fn |-> "fragment_data", args |-> <<48, Gen(n, 1), c>>, value |-> None]

call_fragment_data ==
    /\ call.fn = "fragment_data"
    /\ call.value = None
    /\ call' = [call EXCEPT
                   !.value = Some(fragment_data(call.args[1], call.args[2], call.args[3]))]
    /\ UNCHANGED program

NextFragment == call_fragment_data

SpecFragment == InitFragment /\ [][NextFragment]_vars

(***************************************************************************)
(* CanConfig constructors.                                                 *)
(***************************************************************************)
\* Result<T, CanError>
Ok(x) == [ok |-> TRUE, value |-> x]
Err(e) == [ok |-> FALSE, error |-> e]

\* pub fn new(interface: &str) -> Result<Self, CanError>
CanConfig_new(interface) ==
    IF interface = ""
    THEN Err("ConfigError")
    ELSE Ok([interface |-> interface, frame_type |-> "Classic",
             reassembly_timeout_ms |-> DEFAULT_REASSEMBLY_TIMEOUT_MS,
             enable_error_frames |-> TRUE])

\* pub fn with_fd(interface: &str) -> Result<Self, CanError>
CanConfig_with_fd(interface) ==
    Ok([interface |-> interface, frame_type |-> "Fd",
        reassembly_timeout_ms |-> DEFAULT_REASSEMBLY_TIMEOUT_MS,
        enable_error_frames |-> TRUE])

\* pub fn with_timeout(mut self, timeout_ms: u64) -> Self
with_timeout(self, timeout_ms) == [self EXCEPT !.reassembly_timeout_ms = timeout_ms]

Interfaces == {"", "vcan0", "can0"}
Constructors == {"CanConfig::new", "CanConfig::with_fd"}

InitConfig ==
    /\ InitCommon
    /\ config = CanConfig("Classic", ReassemblyTimeout)
    /\ feed = NoFeed
    /\ \E fn \in Constructors, interface \in Interfaces :
          call = [fn |-> fn, args |-> <<interface>>, value |-> None]

call_CanConfig_new ==
    /\ call.fn = "CanConfig::new"
    /\ call.value = None
    /\ call' = [call EXCEPT !.value = Some(CanConfig_new(call.args[1]))]
    /\ UNCHANGED program

call_CanConfig_with_fd ==
    /\ call.fn = "CanConfig::with_fd"
    /\ call.value = None
    /\ call' = [call EXCEPT !.value = Some(CanConfig_with_fd(call.args[1]))]
    /\ UNCHANGED program

\* the configuration a constructor returned is given a timeout
call_with_timeout ==
    /\ call.fn \in Constructors
    /\ call.value # None
    /\ call.value[1].ok
    /\ \E timeout_ms \in 0..MaxTimeoutMs :
          call' = [call EXCEPT !.value = Some(Ok(with_timeout(call.value[1].value, timeout_ms)))]
    /\ UNCHANGED program

NextConfig ==
    \/ call_CanConfig_new
    \/ call_CanConfig_with_fd
    \/ call_with_timeout

SpecConfig == InitConfig /\ [][NextConfig]_vars

(***************************************************************************)
(* Properties.                                                             *)
(***************************************************************************)
\* the category a frame decodes to: identifier bits 10..8 moved to bits 7..5
Decoded(frame) == ((frame.id \div 256) % 8) * 32
HeaderIndex(frame) == frame.data[1] % 128
HeaderLast(frame) == frame.data[1] >= 128

\* the chunks chunk[from], ..., chunk[to] joined
RECURSIVE Joined(_, _, _)
Joined(chunk, from, to) ==
    IF from > to THEN <<>> ELSE chunk[from] \o Joined(chunk, from + 1, to)

\* every fragment of the message has been fed
AllFed == feed.fed = 1..NFrames
\* exactly one sample was returned, and it carries the bytes of the message
OneSampleOfMessage ==
    /\ Len(samples) = 1
    /\ samples[1].sample.data = feed.data

\* C1 as stated, length 0 included: once all frames of a payload have been
\* fed in order, one sample with exactly the payload's bytes was returned
C1_RoundTripFromZero ==
    AllFed => OneSampleOfMessage

\* C1 amended: for every payload of length 1..896 (classic) and 1..8001
\* (extended), feeding all frames of fragment_data in order into a subscriber
\* without state returns one sample, with exactly the payload's bytes
C1_RoundTrip ==
    (AllFed /\ Len(feed.data) >= 1) => OneSampleOfMessage

\* a payload of 128 classic fragments has gone round
C1_Witness ==
    /\ AllFed
    /\ NFrames = FRAGMENT_INDEX_MASK + 1
    /\ Len(feed.data) = NFrames * CAN_PAYLOAD_SIZE
    /\ OneSampleOfMessage

\* receive_timeout reads the oldest frame of the bus and processes it
ReadStep == rx.pc = "read" /\ bus # <<>> /\ bus' = Tail(bus)

\* C2: a sample is returned only by the step that processes a frame with
\* is_last set, and its bytes are the stored chunks of every index
\* 0..=last_index, none missing, joined in index order
C2_NeverPartial ==
    [][samples' # samples =>
          /\ ReadStep
          /\ Len(samples') = Len(samples) + 1
          /\ LET frame == Head(bus)
                 key == Decoded(frame)
                 stored == IF key \in DOMAIN reassembly_states
                           THEN reassembly_states[key].fragments ELSE <<>>
                 last_index == HeaderIndex(frame)
                 chunk == [i \in 0..last_index |->
                             IF i = last_index THEN Tail(frame.data)
                             ELSE IF i \in DOMAIN stored THEN stored[i] ELSE <<>>]
             IN  /\ frame.data # <<>>
                 /\ HeaderLast(frame)
                 /\ \A i \in 0..(last_index - 1) : i \in DOMAIN stored
                 /\ samples'[Len(samples')].sample.data = Joined(chunk, 0, last_index)]_vars

\* a sample made of the chunks of index 0 and index 1 was returned
C2_Witness ==
    /\ samples # <<>>
    /\ HeaderLast(cur.frame)
    /\ HeaderIndex(cur.frame) = 1
    /\ Len(samples[Len(samples)].sample.data) = 2

\* C3 as stated, for a message of any length: with one non-last fragment
\* withheld, no sample is ever returned
C3_WithheldAnyLength ==
    feed.withheld # 0 => samples = <<>>

\* C3 amended: with one non-last fragment of a message of at most 128
\* fragments withheld and the others fed in any order, no sample is ever
\* returned
C3_Withheld ==
    (feed.withheld # 0 /\ NFrames <= FRAGMENT_INDEX_MASK + 1) => samples = <<>>

\* all fragments but the withheld one of a 128-fragment message are fed
C3_Witness ==
    /\ feed.withheld # 0
    /\ NFrames = FRAGMENT_INDEX_MASK + 1
    /\ Unfed = {}
    /\ samples = <<>>

\* the fragment fed last is the is_last fragment, and nothing is left to feed
LastFedLast ==
    /\ NFrames >= 1
    /\ AllFed
    /\ cur.frame = feed.frames[NFrames]

\* C4: for a message of at most 128 fragments, whenever the is_last fragment
\* is delivered after all the others, in whatever order those came, one
\* sample equal to the payload is returned
C4_OutOfOrder ==
    (feed.withheld = 0 /\ NFrames <= FRAGMENT_INDEX_MASK + 1 /\ LastFedLast)
        => OneSampleOfMessage

\* a message of several fragments was delivered out of order, last fragment last
C4_Witness ==
    /\ feed.reordered
    /\ feed.withheld = 0
    /\ NFrames = MaxSmallFrags
    /\ LastFedLast
    /\ OneSampleOfMessage

\* the top of a pass of the receive loop, where cleanup_expired_states runs
CleanupStep == rx.pc = "loop" /\ rx'.pc = "read"
\* the state of category k has had no fragment for longer than the timeout
Expired(k) == now - reassembly_states[k].last_update > config.reassembly_timeout_ms
\* the allow-list lets the category through
Allowed(category) ==
    subscribed_categories = <<>> \/ Contains(subscribed_categories, category)

\* C5: a state that has had no fragment for longer than the reassembly
\* timeout is absent after the cleanup of the next pass of the receive loop,
\* and an is_last fragment that then arrives for a category without state
\* goes into a fresh, empty state: it completes alone if its index is 0 and
\* otherwise is the only chunk stored, so no chunk of the evicted state can
\* appear in a later sample
C5_TimeoutEviction ==
    [][/\ CleanupStep =>
             \A k \in DOMAIN reassembly_states :
                Expired(k) => k \notin DOMAIN reassembly_states'
       /\ (/\ ReadStep
           /\ Head(bus).data # <<>>
           /\ HeaderLast(Head(bus))
           /\ Allowed(Decoded(Head(bus)))
           /\ Decoded(Head(bus)) \notin DOMAIN reassembly_states)
          => LET frame == Head(bus)
                 key == Decoded(frame)
             IN  IF HeaderIndex(frame) = 0
                 THEN /\ Len(samples') = Len(samples) + 1
                      /\ samples'[Len(samples')].sample.data = Tail(frame.data)
                      /\ key \notin DOMAIN reassembly_states'
                 ELSE /\ samples' = samples
                      /\ key \in DOMAIN reassembly_states'
                      /\ reassembly_states'[key].fragments
                            = (HeaderIndex(frame) :> Tail(frame.data))]_vars

\* both frames of a two-fragment message were processed with the filter
\* open, and the state holds the last chunk only: the first was evicted
C5_Witness ==
    /\ subscribed_categories = <<>>
    /\ Len(pubs) >= 1
    /\ pubs[1].result = "Ok"
    /\ Len(pubs[1].sent) = 2
    /\ bus = <<>>
    /\ HeaderLast(cur.frame)
    /\ cur.frame.msg = 1
    /\ \E k \in DOMAIN reassembly_states : DOMAIN reassembly_states[k].fragments = {1}
    /\ samples = <<>>

\* C6: with subscribe(48) as the only subscription, a frame that decodes to
\* another category creates or changes no reassembly state and gives no
\* sample to the caller
C6_CategoryFiltering ==
    [][(ReadStep /\ subscribed_categories = <<48>> /\ Decoded(Head(bus)) # 48)
          => /\ reassembly_states' = reassembly_states
             /\ samples' = samples
             /\ rx'.result # "OkSome"]_vars

\* a frame published under category 62 was discarded by a subscriber of 48
C6_Witness ==
    /\ subscribed_categories = <<48>>
    /\ cur.path = "filtered"
    /\ cur.frame.msg >= 1
    /\ pubs[cur.frame.msg].category = 62

\* no frame of publish_raw call m is left on the bus
Consumed(m) == \A i \in 1..Len(bus) : bus[i].msg # m
\* a sample was returned on a frame of call m
Delivered(m) == \E j \in 1..Len(samples) : samples[j].msg = m

\* C7: a non-empty message published under a category the subscriber had
\* subscribed to, fully sent and fully read while no state can have
\* expired, has been returned as a sample
C7_SubscribedDelivery ==
    \A m \in 1..Len(pubs) :
       (/\ Contains(pubs[m].subscribed_at_call, pubs[m].category)
        /\ pubs[m].data # <<>>
        /\ pubs[m].result = "Ok"
        /\ Consumed(m)
        /\ now <= config.reassembly_timeout_ms)
       => Delivered(m)

\* C8: every sample returned for a message published under category c has
\* category c and as many bytes as the published payload
C8_SampleCategory ==
    \A j \in 1..Len(samples) :
       LET m == samples[j].msg
       IN  m >= 1 =>
              /\ samples[j].sample.category = pubs[m].category
              /\ Len(samples[j].sample.data) = Len(pubs[m].data)

\* the allow-list is non-empty and lacks the category the frame decodes to
FilterRejects(frame) ==
    /\ subscribed_categories # <<>>
    /\ ~Contains(subscribed_categories, Decoded(frame))
\* the step left the reassembly states alone and returned nothing
Dropped ==
    /\ reassembly_states' = reassembly_states
    /\ samples' = samples
\* the step returned a sample, or stored the frame's chunk under its header
\* index in the state of its category and reset that state's timestamp
FedEffect(frame) ==
    LET key == Decoded(frame)
        index == HeaderIndex(frame)
    IN  \/ Len(samples') = Len(samples) + 1
        \/ /\ key \in DOMAIN reassembly_states'
           /\ index \in DOMAIN reassembly_states'[key].fragments
           /\ reassembly_states'[key].fragments[index] = Tail(frame.data)
           /\ reassembly_states'[key].last_update = now

\* C9 as stated, for every frame: a frame is kept from the Reassembler
\* exactly when the allow-list is non-empty and lacks its category
C9_AllowListEveryFrame ==
    [][ReadStep => (cur'.path # "fed" <=> FilterRejects(Head(bus)))]_vars

\* C9 amended: a frame with a non-empty data field is kept from the
\* Reassembler exactly when the allow-list is non-empty and lacks its decoded
\* category, and then nothing changes; otherwise (so always with an empty
\* allow-list) it is fed to the Reassembler
C9_AllowList ==
    [][(ReadStep /\ Head(bus).data # <<>>) =>
          /\ cur'.path # "fed" <=> FilterRejects(Head(bus))
          /\ cur'.path # "fed" => Dropped
          /\ cur'.path = "fed" => FedEffect(Head(bus))]_vars

\* a non-empty frame was kept out by an allow-list that lacks its category
C9_Witness ==
    /\ subscribed_categories # <<>>
    /\ cur.frame.data # <<>>
    /\ cur.path = "filtered"
    /\ ~Contains(subscribed_categories, Decoded(cur.frame))

\* encode(category, seq) of the wire format
Encode(category, seq) == (((category \div 32) % 8) * 256) + seq

\* C10 as stated: the j-th frame sent has header index j - 1 and is sent
\* under encode(category, header index)
C10_IdOfHeaderIndex ==
    \A m \in 1..Len(pubs) :
       \A j \in 1..Len(pubs[m].sent) :
          LET frame == pubs[m].sent[j]
          IN  /\ HeaderIndex(frame) = j - 1
              /\ frame.id = Encode(pubs[m].category, HeaderIndex(frame))

\* the frames a call has sent are its first fragments in order: fragment k
\* (from 0) carries bytes k*c .. of the payload under header index k mod 128
\* and is sent under encode(category, k mod 256)
SentInOrder ==
    \A m \in 1..Len(pubs) :
       LET p == pubs[m]
           c == payload_size(config)
       IN  /\ Len(p.sent) = p.idx
           /\ m = Len(pubs) => SubSeq(bus, Len(bus) - Len(p.sent) + 1, Len(bus)) = p.sent
           /\ \A j \in 1..Len(p.sent) :
                 LET frame == p.sent[j]
                     k == j - 1
                 IN  /\ HeaderIndex(frame) = k % 128
                     /\ frame.id = Encode(p.category, k % 256)
                     /\ Tail(frame.data)
                           = SubSeq(p.data, (k * c) + 1, Min((k + 1) * c, Len(p.data)))

\* C10 amended: publish_raw sends the fragments one at a time in ascending
\* fragment order from 0; fragment k has header index k mod 128 and bus
\* identifier encode(category, k mod 256), which is encode(category, header
\* index) for the first 128 fragments
C10_PublishOrder ==
    [][SentInOrder' /\ Len(bus') <= Len(bus) + 1]_vars

\* a message of 129 fragments was sent: the last has header index 0
C10_Witness ==
    /\ Len(pubs) = 1
    /\ pubs[1].result = "Ok"
    /\ Len(pubs[1].sent) = FRAGMENT_INDEX_MASK + 2
    /\ HeaderIndex(pubs[1].sent[FRAGMENT_INDEX_MASK + 2]) = 0

\* the send of the next frame of call m is rejected in this step
Rejected(m) == Running(pubs[m]) /\ ~Running(pubs'[m]) /\ pubs'[m].result # "Ok"
\* the frames of call m that are on the bus
OnBus(b, m) == {i \in 1..Len(b) : b[i].msg = m}

\* C11: when the send of the k-th frame (k from 0) of a message is rejected,
\* publish_raw returns SendError in that step with the k frames sent before
\* still sent and the bus as it was; from then on the call sends nothing
\* more: the rejected frame and the later ones never reach the bus
C11_PublishFailure ==
    [][\A m \in 1..Len(pubs) :
          /\ Rejected(m) =>
                /\ pubs'[m].result = "SendError"
                /\ pubs'[m].sent = pubs[m].sent
                /\ Len(pubs'[m].sent) = pubs'[m].idx
                /\ pubs'[m].idx < Len(pubs'[m].fragments)
                /\ bus' = bus
          /\ pubs[m].result = "SendError" =>
                /\ pubs'[m] = pubs[m]
                /\ Cardinality(OnBus(bus', m)) <= Cardinality(OnBus(bus, m))]_vars

\* the second frame of a two-fragment message was rejected; the first is
\* still on the bus
C11_Witness ==
    /\ Len(pubs) = 1
    /\ pubs[1].result = "SendError"
    /\ Len(pubs[1].fragments) = 2
    /\ Len(pubs[1].sent) = 1
    /\ bus = pubs[1].sent

\* the receive_timeout call returns in this step
Returns == rx.pc # "idle" /\ rx'.pc = "idle"

\* C12: a receive_timeout(t) call terminates; when it returns without a
\* frame having completed a message and without a read error, t has elapsed
\* since its start and it returns Ok(None), whatever frames were read and
\* dropped or stored meanwhile; a loop test made once t has elapsed returns
\* Ok(None); no call returns anything but Ok(None), Ok(Some) or ReceiveError
C12_ReceiveTimeout ==
    /\ [][/\ Returns => rx'.result \in {"OkNone", "OkSome", "ReceiveError"}
          /\ (Returns /\ samples' = samples /\ rx'.result # "ReceiveError")
                => (rx'.result = "OkNone" /\ now - rx.start >= rx.timeout)
          /\ (rx.pc = "loop" /\ rx' # rx /\ now - rx.start >= rx.timeout)
                => rx'.result = "OkNone"]_vars
    /\ (rx.pc # "idle") ~> (rx.pc = "idle")

\* a call has returned Ok(None) after one frame was stored without
\* completing a message and another was filtered out
C12_Witness ==
    /\ rx.pc = "idle"
    /\ rx.result = "OkNone"
    /\ subscribed_categories = <<64>>
    /\ cur.path = "filtered"
    /\ DOMAIN reassembly_states = {64}
    /\ samples = <<>>

\* C13: a read error other than WouldBlock ends the call in that step with
\* ReceiveError, nothing further being read or processed, and ReceiveError
\* is returned by no other step; a WouldBlock read returns nothing to the
\* caller: the call is back at its loop test with no result
C13_ReceiveFailure ==
    [][/\ receive_error =>
             /\ rx'.pc = "idle"
             /\ rx'.result = "ReceiveError"
             /\ UNCHANGED <<now, bus, reassembly_states, cur, samples>>
       /\ receive_would_block =>
             /\ rx'.pc = "loop"
             /\ rx'.result = "-"
             /\ rx'.start = rx.start /\ rx'.timeout = rx.timeout
             /\ UNCHANGED <<bus, reassembly_states, cur, samples>>
       /\ (Returns /\ rx'.result = "ReceiveError") =>
             (rx.pc = "read" /\ bus' = bus /\ samples' = samples)]_vars

\* a call polled an empty bus, time passing, and then ended with
\* ReceiveError, leaving a frame that had arrived unread
C13_Witness ==
    /\ rx.pc = "idle"
    /\ rx.result = "ReceiveError"
    /\ now >= 1
    /\ bus # <<>>
    /\ cur.path = "none"

\* C14: the step in which a frame completes a message is a read of one frame
\* that ends the call with Ok(Some(sample)): one sample more, the frames
\* behind the one read still queued; a call returns Ok(Some) in no other
\* step, so it returns at most one sample, and nothing is read between calls
C14_ReturnsOnCompletion ==
    [][/\ samples' # samples =>
             /\ ReadStep
             /\ Len(samples') = Len(samples) + 1
             /\ Returns
             /\ rx'.result = "OkSome"
       /\ (Returns /\ rx'.result = "OkSome") => (ReadStep /\ samples' # samples)
       /\ rx.pc = "idle" =>
             (Len(bus') >= Len(bus) /\ SubSeq(bus', 1, Len(bus)) = bus)]_vars

\* a call returned a sample and left the frame queued behind the completing
\* one unread
C14_Witness ==
    /\ rx.pc = "idle"
    /\ rx.result = "OkSome"
    /\ Len(samples) = 1
    /\ HeaderLast(cur.frame)
    /\ Len(bus) = 1
    /\ injected = 2

\* C15: the map holds one state per category, filed under the category it
\* was made for and never empty; a state appears only when a frame is fed
\* that completes no message, and disappears only with the return of a
\* sample of its category or in a cleanup after its timeout; once a sample
\* of a category is returned (a single frame with index 0 and is_last
\* included) the map has no state of that category
C15_StateLifecycle ==
    [][/\ \A k \in DOMAIN reassembly_states' :
             /\ reassembly_states'[k].category = k
             /\ DOMAIN reassembly_states'[k].fragments # {}
       /\ samples' # samples =>
             samples'[Len(samples')].sample.category \notin DOMAIN reassembly_states'
       /\ \A k \in DOMAIN reassembly_states' \ DOMAIN reassembly_states :
             /\ ReadStep
             /\ cur'.path = "fed"
             /\ Decoded(Head(bus)) = k
             /\ samples' = samples
       /\ \A k \in DOMAIN reassembly_states \ DOMAIN reassembly_states' :
             \/ /\ samples' # samples
                /\ samples'[Len(samples')].sample.category = k
             \/ CleanupStep /\ Expired(k)]_vars

\* a frame with index 1 and is_last completed the message begun by a stored
\* chunk, and the state of its category is gone
C15_Witness ==
    /\ Len(samples) = 1
    /\ cur.path = "fed"
    /\ HeaderLast(cur.frame)
    /\ HeaderIndex(cur.frame) = 1
    /\ samples[1].sample.category = Decoded(cur.frame)
    /\ Decoded(cur.frame) \notin DOMAIN reassembly_states

\* C16: whatever frame is read (no data, a category outside the allow-list,
\* a repeated index, an is_last index whose predecessors are missing, a
\* frame for a state left by an older message), processing it takes one of
\* the three Ok paths of process_frame: the call goes on with no result or
\* returns Ok(Some) with the sample just made, and never returns an error
C16_NoReassemblyError ==
    [][ReadStep =>
          /\ cur'.frame = Head(bus)
          /\ cur'.path \in {"empty", "filtered", "fed"}
          /\ \/ rx'.pc = "loop" /\ rx'.result = "-" /\ samples' = samples
             \/ rx'.pc = "idle" /\ rx'.result = "OkSome" /\ samples' # samples]_vars

\* an is_last frame of index 1 was fed while chunk 0 was missing: it is
\* stored, no sample is made and the call goes on
C16_Witness ==
    /\ rx.pc = "loop"
    /\ cur.path = "fed"
    /\ HeaderLast(cur.frame)
    /\ HeaderIndex(cur.frame) = 1
    /\ samples = <<>>
    /\ Decoded(cur.frame) \in DOMAIN reassembly_states
    /\ DOMAIN reassembly_states[Decoded(cur.frame)].fragments = {1}

\* C17: for every category and every sequence number of 0..=255 the
\* identifier build_can_id returns is at most 0x7FF, so StandardId::new
\* accepts it and publish_raw does not fail with "Invalid CAN ID"
C17_IdentifierBound ==
    (call.fn = "build_can_id" /\ call.value # None) =>
        /\ call.value[1] <= MAX_STANDARD_ID
        /\ StandardId_new(call.value[1] % 65536) # None

\* the largest identifier: category 255, sequence number 255
C17_Witness ==
    /\ call.fn = "build_can_id"
    /\ call.args = <<255, 255>>
    /\ call.value = Some(MAX_STANDARD_ID)

\* fragment_data has returned
Fragmented == call.fn = "fragment_data" /\ call.value # None
\* is_last of the header byte of a fragment
LastFlag(fragment) == (fragment[1] \div FRAGMENT_LAST_FLAG) % 2 = 1

\* C18: for every payload of length n >= 1 and chunk size c >= 1,
\* fragment_data returns exactly ceil(n/c) frames, of which the last and no
\* other has is_last set
C18_FragmentCount ==
    (Fragmented /\ Len(call.args[2]) >= 1) =>
        LET n == Len(call.args[2])
            c == call.args[3]
            frames == call.value[1]
        IN  /\ Len(frames) = (n + c - 1) \div c
            /\ \A k \in 1..Len(frames) : LastFlag(frames[k]) <=> k = Len(frames)

\* 200 bytes in chunks of 7 gave 29 frames
C18_Witness ==
    /\ Fragmented
    /\ Len(call.args[2]) = 200
    /\ call.args[3] = CAN_PAYLOAD_SIZE
    /\ Len(call.value[1]) = 29
    /\ LastFlag(call.value[1][29])

\* the data bytes of the fragments from..to joined
RECURSIVE JoinedData(_, _, _)
JoinedData(frames, from, to) ==
    IF from > to THEN <<>>
    ELSE IF from = to THEN Tail(frames[from])
    ELSE CHOOSE r \in {left \o JoinedData(frames, ((from + to) \div 2) + 1, to) :
                          left \in {JoinedData(frames, from, (from + to) \div 2)}} : TRUE

\* C19: the k-th frame (k from 0) of fragment_data is the header byte
\* (is_last << 7) | (k & 0x7F) followed by the payload bytes k*c up to
\* min((k+1)*c, n); every frame but the last has c data bytes, the last has
\* 1..=c, and the data bytes of all frames joined in order are the payload
C19_FragmentForm ==
    Fragmented =>
        LET data == call.args[2]
            n == Len(data)
            c == call.args[3]
            frames == call.value[1]
        IN  /\ \A j \in 1..Len(frames) :
                  LET k == j - 1
                      is_last == j = Len(frames)
                      header == (IF is_last THEN FRAGMENT_LAST_FLAG ELSE 0) + (k % 128)
                  IN  /\ frames[j] = <<header>> \o SubSeq(data, (k * c) + 1, Min((k + 1) * c, n))
                      /\ ~is_last => Len(frames[j]) = c + 1
                      /\ is_last => (Len(frames[j]) >= 2 /\ Len(frames[j]) <= c + 1)
            /\ JoinedData(frames, 1, Len(frames)) = data

\* 8 bytes in chunks of 7: header 0x00 with 7 bytes, header 0x81 with 1 byte
C19_Witness ==
    /\ Fragmented
    /\ Len(call.args[2]) = 8
    /\ call.args[3] = CAN_PAYLOAD_SIZE
    /\ call.value[1] = << <<0>> \o SubSeq(call.args[2], 1, 7), <<129, call.args[2][8]>> >>

\* C20: fragment_data makes no frame of an empty payload, and a publish_raw
\* call with an empty payload has returned Ok with no frame sent; no frame
\* of it is on the bus or was read, and no sample was returned for it
C20_EmptyPayload ==
    \A m \in 1..Len(pubs) :
       pubs[m].data = <<>> =>
          /\ fragment_data(pubs[m].category, pubs[m].data, payload_size(config)) = <<>>
          /\ pubs[m].fragments = <<>>
          /\ pubs[m].result = "Ok"
          /\ pubs[m].sent = <<>>
          /\ OnBus(bus, m) = {}
          /\ cur.frame.msg # m
          /\ ~Delivered(m)

\* an empty payload was published and a receive call has timed out with
\* nothing read
C20_Witness ==
    /\ Len(pubs) = 1
    /\ pubs[1].data = <<>>
    /\ pubs[1].result = "Ok"
    /\ rx.pc = "idle"
    /\ rx.result = "OkNone"
    /\ cur.path = "none"
    /\ samples = <<>>

\* C21: of a payload that needs more than 128 fragments, fragment_data makes
\* frames whose k-th header index is k mod 128, is_last on the final one
\* only; fed in order, each is taken by the Reassembler without error, at
\* most one sample is returned, and no sample has the bytes of the payload
C21_IndexWrap ==
    NFrames > FRAGMENT_INDEX_MASK + 1 =>
        /\ \A j \in 1..NFrames :
              /\ HeaderIndex(feed.frames[j]) = (j - 1) % 128
              /\ HeaderLast(feed.frames[j]) <=> j = NFrames
        /\ feed.fed # {} => cur.path = "fed"
        /\ Len(samples) <= 1
        /\ \A i \in 1..Len(samples) : samples[i].sample.data # feed.data

\* all 129 fragments of a message were fed in order: the sample returned is
\* the one byte of the last fragment, which took index 0
C21_Witness ==
    /\ NFrames = FRAGMENT_INDEX_MASK + 2
    /\ AllFed
    /\ Len(feed.data) = ((FRAGMENT_INDEX_MASK + 1) * CAN_PAYLOAD_SIZE) + 1
    /\ Len(samples) = 1
    /\ samples[1].sample.data = Tail(feed.frames[NFrames].data)

C23_EmptyInterfaceRejected ==
    (call.fn \in Constructors /\ call.args = <<"">> /\ call.value # None) =>
        (~call.value[1].ok /\ call.value[1].error = "ConfigError")

\* the frames of call m on the bus, in bus order
FramesOfCall(b, m) == SelectSeq(b, LAMBDA frame : frame.msg = m)

\* C24: with several publish_raw calls running at once on one publisher,
\* the frames of each call are on the bus in that call's fragment order
\* from 0, each made from the call's own arguments alone; a step of one
\* call changes nothing of another; and a running call can always send its
\* next frame whatever the others have sent, so the calls interleave freely
C24_ConcurrentProducers ==
    [][/\ \A m \in 1..Len(pubs') :
             LET p == pubs'[m]
             IN  /\ p.fragments = fragment_data(p.category, p.data, payload_size(config))
                 /\ Len(p.sent) = p.idx
                 /\ FramesOfCall(bus', m) = p.sent
                 /\ \A j \in 1..Len(p.sent) :
                       p.sent[j] = Frame(send_id(p.category, j - 1), p.fragments[j], m)
       /\ \A m \in 1..Len(pubs) :
             /\ Running(pubs[m]) => ENABLED publish_send_of(m)
             /\ pubs'[m] # pubs[m] =>
                   \A n \in 1..Len(pubs) : n # m => pubs'[n] = pubs[n]]_vars

\* two calls have sent two frames each, alternating on the bus
C24_Witness ==
    /\ Len(pubs) = 2
    /\ pubs[1].result = "Ok"
    /\ pubs[2].result = "Ok"
    /\ Len(bus) = 4
    /\ bus[1].msg = 1 /\ bus[2].msg = 2 /\ bus[3].msg = 1 /\ bus[4].msg = 2

\* no category is twice in the list
NoDuplicate(vec) == \A i, j \in 1..Len(vec) : vec[i] = vec[j] => i = j

\* C25: subscribe(c) can be called whenever no receive call is running and
\* then succeeds; it appends c if the allow-list lacks it and otherwise
\* leaves the allow-list as it was, so the allow-list holds every subscribed
\* category exactly once; it never touches the reassembly states
C25_SubscribeIdempotent ==
    [][/\ \A c \in SubCats :
             /\ rx.pc = "idle" => ENABLED subscribe(c)
             /\ subscribe(c) =>
                   /\ reassembly_states' = reassembly_states
                   /\ Contains(subscribed_categories', c)
                   /\ Contains(subscribed_categories, c)
                         => subscribed_categories' = subscribed_categories
                   /\ ~Contains(subscribed_categories, c)
                         => subscribed_categories' = Append(subscribed_categories, c)
       /\ subscribed_categories' # subscribed_categories => \E c \in SubCats : subscribe(c)
       /\ NoDuplicate(subscribed_categories')]_vars

\* both categories are subscribed, the second while a reassembly state exists
C25_Witness ==
    /\ subscribed_categories = <<64, 48>>
    /\ DOMAIN reassembly_states = {64}
    /\ rx.pc = "idle"

\* C26: for every category c and sequence number s of 0..=255, parse_can_id
\* of build_can_id(c, s) is (c & 0xE0, s): the sequence number comes back
\* as it was, the category with its low 5 bits cleared, hence unchanged
\* exactly when they were zero
C26_IdentifierCodec ==
    (call.fn = "build_can_id" /\ call.decoded # None) =>
        LET c == call.args[1]
            s == call.args[2]
        IN  /\ call.decoded[1] = <<(c \div 32) * 32, s>>
            /\ call.decoded[1][1] = c <=> c % 32 = 0

\* category 48 with sequence number 200 came back as (32, 200)
C26_Witness ==
    /\ call.fn = "build_can_id"
    /\ call.args = <<48, 200>>
    /\ call.decoded = Some(<<32, 200>>)

\* C27: for every index of 0..=127 and every is_last, parse_fragment_header
\* of build_fragment_header(index, is_last) is (index, is_last); of an index
\* of 128..=255 the header keeps the low 7 bits, and is_last is bit 7 alone
C27_HeaderCodec ==
    (call.fn = "build_fragment_header" /\ call.decoded # None) =>
        LET index == call.args[1]
            is_last == call.args[2]
        IN  /\ call.value[1] = (index % 128) + (IF is_last THEN 128 ELSE 0)
            /\ index <= 127 => call.decoded[1] = <<index, is_last>>
            /\ index >= 128 => call.decoded[1] = <<index - 128, is_last>>

\* index 200 with is_last came back as (72, TRUE)
C27_Witness ==
    /\ call.fn = "build_fragment_header"
    /\ call.args = <<200, TRUE>>
    /\ call.decoded = Some(<<72, TRUE>>)

\* every chunk stored is the chunk of the message with that index
Pristine ==
    \A key \in DOMAIN reassembly_states :
       \A i \in DOMAIN reassembly_states[key].fragments :
          /\ i + 1 <= NFrames
          /\ reassembly_states[key].fragments[i] = Tail(feed.frames[i + 1].data)

\* C28: a non-last fragment whose index is already stored replaces the
\* chunk stored under that index by its own bytes and leaves every other
\* index as it was, returning nothing, so the same fragment delivered again
\* leaves the fragment map as it was; and a message whose fragments are
\* delivered more than once still reassembles to the payload
C28_Redelivery ==
    [][LET frame == cur'.frame
           key == Decoded(frame)
           index == HeaderIndex(frame)
       IN  /\ (/\ ~HeaderLast(frame)
               /\ key \in DOMAIN reassembly_states
               /\ index \in DOMAIN reassembly_states[key].fragments)
              => /\ key \in DOMAIN reassembly_states'
                 /\ reassembly_states'[key].fragments
                       = [reassembly_states[key].fragments EXCEPT ![index] = Tail(frame.data)]
                 /\ Tail(frame.data) = reassembly_states[key].fragments[index]
                       => reassembly_states'[key].fragments = reassembly_states[key].fragments
                 /\ samples' = samples
           /\ (Pristine /\ frame.msg = 1 /\ samples' # samples)
              => samples'[Len(samples')].sample.data = feed.data]_vars

\* a message of three fragments had fragments delivered again before its
\* last fragment completed it with the bytes of the payload
C28_Witness ==
    /\ NFrames = 3
    /\ injected = MaxRedeliver
    /\ AllFed
    /\ cur.frame = feed.frames[NFrames]
    /\ reassembly_states = <<>>
    /\ OneSampleOfMessage

\* the chunks stored for the category of the frame before it is processed
StoredFor(frame) ==
    IF Decoded(frame) \in DOMAIN reassembly_states
    THEN DOMAIN reassembly_states[Decoded(frame)].fragments
    ELSE {}

\* C29: a fragment without is_last never returns a sample; an is_last
\* fragment that arrives while an index below its own has no stored chunk
\* returns none either and is stored in the state; so once the is_last
\* fragment of a message of at most 128 fragments has come early, the
\* arrival of the missing fragments leaves the state holding every chunk
\* with no sample returned
C29_EarlyLast ==
    [][LET frame == cur'.frame
           key == Decoded(frame)
           index == HeaderIndex(frame)
       IN  /\ ~HeaderLast(frame) => samples' = samples
           /\ (HeaderLast(frame) /\ \E i \in 0..(index - 1) : i \notin StoredFor(frame))
              => /\ samples' = samples
                 /\ key \in DOMAIN reassembly_states'
                 /\ index \in DOMAIN reassembly_states'[key].fragments
                 /\ reassembly_states'[key].fragments[index] = Tail(frame.data)
           /\ (/\ feed'.fed = 1..NFrames
               /\ feed.withheld = 0
               /\ NFrames <= FRAGMENT_INDEX_MASK + 1
               /\ ~HeaderLast(frame))
              => /\ samples' = <<>>
                 /\ key \in DOMAIN reassembly_states'
                 /\ DOMAIN reassembly_states'[key].fragments = 0..(NFrames - 1)]_vars

\* every fragment of a message has arrived, the is_last one before others:
\* the state holds all chunks and no sample was returned
C29_Witness ==
    /\ NFrames = MaxSmallFrags
    /\ feed.withheld = 0
    /\ AllFed
    /\ ~HeaderLast(cur.frame)
    /\ samples = <<>>
    /\ \E key \in DOMAIN reassembly_states :
          DOMAIN reassembly_states[key].fragments = 0..(NFrames - 1)

\* publish_raw call m returned SendError with at least one frame sent; the
\* frames sent all come before the is_last one
PartlySent(m) == pubs[m].result = "SendError" /\ Len(pubs[m].sent) >= 1
\* the key under which the subscriber stores the frames of call m
KeyOf(m) == Decoded(pubs[m].sent[1])

PublishedAs(id) == {c \in KeyCats : \E s \in KeySeqs : build_can_id(c, s) = id}

StateFor(frame) ==
    IF Decoded(frame) \in DOMAIN reassembly_states
    THEN reassembly_states[Decoded(frame)]
    ELSE ReassemblyState_new(Decoded(frame), now)

\* C32: whichever message a frame belongs to, it is stored in the state of
\* its key under its header index, replacing the chunk another message left
\* there; an is_last frame returns the chunks 0..index of that state joined,
\* whichever messages they came from, in an Ok(Some), and no step of the
\* receiver returns an error; so frames of two messages of one key that
\* interleave can give a sample that is neither payload
C32_InterleavedCorrupt ==
    [][/\ ReadStep =>
             LET frame == Head(bus)
                 key == Decoded(frame)
                 index == HeaderIndex(frame)
                 chunks == Insert(StateFor(frame).fragments, index, Tail(frame.data))
             IN  IF HeaderLast(frame) /\ (0..index) \subseteq DOMAIN chunks
                 THEN /\ Len(samples') = Len(samples) + 1
                      /\ samples'[Len(samples')].sample.data = Joined(chunks, 0, index)
                      /\ rx'.result = "OkSome"
                 ELSE /\ samples' = samples
                      /\ reassembly_states'[key].fragments = chunks
                      /\ rx'.pc = "loop"
       /\ rx'.result \in {"-", "OkNone", "OkSome"}]_vars

\* two messages of one key were sent interleaved, and receive_timeout
\* returned a sample that has the length of one but equals neither
C32_Witness ==
    /\ Len(pubs) = 2
    /\ pubs[1].result = "Ok"
    /\ pubs[2].result = "Ok"
    /\ Decoded(pubs[1].sent[1]) = Decoded(pubs[2].sent[1])
    /\ pubs[1].category # pubs[2].category
    /\ rx.result = "OkSome"
    /\ Len(samples) = 1
    /\ samples[1].sample.data # pubs[1].data
    /\ samples[1].sample.data # pubs[2].data
    /\ Len(samples[1].sample.data) = Len(pubs[1].data)

\* the frame at the head of the bus has data and passes the allow-list
Admitted == Head(bus).data # <<>> /\ Allowed(Decoded(Head(bus)))

\* C33: while no receive call runs the map of states does not change; a
\* state goes without a sample being returned only in the cleanup at the
\* top of a pass of the receive loop, and then it had expired; and a frame
\* read for a state that has expired since that cleanup is added to it as
\* to any other: its chunk joins the old ones, and an is_last frame returns
\* them joined
C33_InlineEviction ==
    [][/\ rx.pc = "idle" => reassembly_states' = reassembly_states
       /\ \A k \in DOMAIN reassembly_states \ DOMAIN reassembly_states' :
             samples' = samples => CleanupStep /\ Expired(k)
       /\ ~CleanupStep =>
             \A k \in DOMAIN reassembly_states :
                \/ k \in DOMAIN reassembly_states'
                \/ ReadStep /\ Decoded(Head(bus)) = k /\ samples' # samples
       /\ (/\ ReadStep
           /\ Admitted
           /\ Decoded(Head(bus)) \in DOMAIN reassembly_states
           /\ Expired(Decoded(Head(bus))))
          => LET frame == Head(bus)
                 key == Decoded(frame)
                 added == add_fragment(reassembly_states[key], HeaderIndex(frame),
                                       Tail(frame.data), HeaderLast(frame), now)
             IN  IF added.result = None
                 THEN /\ samples' = samples
                      /\ reassembly_states'[key] = added.state
                      /\ DOMAIN reassembly_states[key].fragments
                            \subseteq DOMAIN reassembly_states'[key].fragments
                 ELSE /\ Len(samples') = Len(samples) + 1
                      /\ samples'[Len(samples')].sample.data = added.result[1]]_vars

\* the receive loop is past its cleanup and blocked in the read, the state
\* of category 64 has expired meanwhile, and a frame for it has arrived
C33_Witness ==
    /\ rx.pc = "read"
    /\ bus # <<>>
    /\ Admitted
    /\ Decoded(Head(bus)) = 64
    /\ 64 \in DOMAIN reassembly_states
    /\ Expired(64)
    /\ HeaderLast(Head(bus))
    /\ HeaderIndex(Head(bus)) = 1
    /\ DOMAIN reassembly_states[64].fragments = {0}

\* how long the state of category k has had no fragment
Inactivity(k) == now - reassembly_states[k].last_update

\* C34: a fragment added to a state without completing it sets the state's
\* last_update to the time of the read, whatever it was before; the cleanup
\* of a pass of the receive loop keeps, exactly as it is, every state whose
\* inactivity is at most the timeout (the timeout exactly included),
\* whatever other states it removes; so a state is never evicted while
\* fragments keep coming within the timeout of one another
C34_ActivityKeepsAlive ==
    [][/\ (ReadStep /\ Admitted /\ samples' = samples)
          => reassembly_states'[Decoded(Head(bus))].last_update = now
       /\ CleanupStep =>
             \A k \in DOMAIN reassembly_states :
                IF Inactivity(k) <= config.reassembly_timeout_ms
                THEN /\ k \in DOMAIN reassembly_states'
                     /\ reassembly_states'[k] = reassembly_states[k]
                ELSE k \notin DOMAIN reassembly_states'
       /\ (~CleanupStep /\ samples' = samples)
          => DOMAIN reassembly_states \subseteq DOMAIN reassembly_states']_vars

\* a pass of the receive loop begins with two states: one has expired, the
\* other got its fragment later and is inactive for the timeout exactly
C34_Witness ==
    /\ rx.pc = "loop"
    /\ now - rx.start < rx.timeout
    /\ DOMAIN reassembly_states = {32, 64}
    /\ Expired(32)
    /\ Inactivity(64) = config.reassembly_timeout_ms

\* C35: reading a frame with an empty data field, or a frame with data
\* that the allow-list rejects, returns nothing to the caller, who goes on
\* to the next pass of the loop, and leaves the map of reassembly states
\* (entries, chunks and last_update times) and the allow-list as they were
C35_DroppedFrames ==
    [][(ReadStep /\ (Head(bus).data = <<>> \/ FilterRejects(Head(bus))))
          => /\ cur'.path = IF Head(bus).data = <<>> THEN "empty" ELSE "filtered"
             /\ reassembly_states' = reassembly_states
             /\ subscribed_categories' = subscribed_categories
             /\ samples' = samples
             /\ rx' = [rx EXCEPT !.pc = "loop"]]_vars

\* a frame without data was read while the map held a state with a chunk
\* stored earlier: the state is there with its old last_update
C35_Witness ==
    /\ cur.path = "empty"
    /\ injected = 2
    /\ bus = <<>>
    /\ samples = <<>>
    /\ \E k \in DOMAIN reassembly_states :
          /\ reassembly_states[k].last_update < now
          /\ DOMAIN reassembly_states[k].fragments = {1}

\* sequence numbers put in place of the one a frame came with
Sequences == {0, 1, FRAGMENT_INDEX_MASK, FRAGMENT_INDEX_MASK + 1, 255}
\* the frame with its identifier's sequence field set to seq
Resequenced(frame, seq) == Frame(((frame.id \div 256) * 256) + seq, frame.data, frame.msg)

\* C36: the frame just processed would have had the same effect, on the
\* map of states and on what is returned, under any other sequence number
\* in its identifier; if it returned nothing its chunk is stored under the
\* index of its header byte, and only a frame whose header byte has is_last
\* returns a sample; this holds as well for the frames from the 129th on,
\* whose identifier sequence is not their header index
C36_SequenceIgnored ==
    [][LET frame == cur'.frame
           key == Decoded(frame)
       IN  /\ \A seq \in Sequences :
                 LET pf == process_frame(Resequenced(frame, seq), reassembly_states,
                                         subscribed_categories, config, now)
                 IN  /\ reassembly_states' = pf.states
                     /\ samples' = IF pf.result = None THEN samples
                                   ELSE Append(samples, [sample |-> pf.result[1],
                                                         msg |-> frame.msg])
           /\ samples' = samples
              => /\ key \in DOMAIN reassembly_states'
                 /\ HeaderIndex(frame) \in DOMAIN reassembly_states'[key].fragments
                 /\ reassembly_states'[key].fragments[HeaderIndex(frame)] = Tail(frame.data)
           /\ samples' # samples => HeaderLast(frame)]_vars

\* the 130th fragment of a message, sent under sequence number 129, was
\* stored under header index 1
C36_Witness ==
    /\ feed.fed = 1..(FRAGMENT_INDEX_MASK + 3)
    /\ cur.frame.id % 256 = FRAGMENT_INDEX_MASK + 2
    /\ HeaderIndex(cur.frame) = 1
    /\ ~HeaderLast(cur.frame)
    /\ samples = <<>>
    /\ Decoded(cur.frame) \in DOMAIN reassembly_states
    /\ reassembly_states[Decoded(cur.frame)].fragments[1] = Tail(cur.frame.data)

====
